---------------------------- MODULE Spec2Model ----------------------------
(***************************************************************************)
(* A model of pdf_sort.py: the date extractor, the keyword classifier,     *)
(* the per-file pipeline run by a thread pool, and the orchestrator.       *)
(*                                                                         *)
(* Text is a TLA+ string; a character is a string of length one, read with *)
(* Char.  Python's None is modelled by 0, which no month or year that the  *)
(* program parses can equal.                                               *)
(***************************************************************************)
EXTENDS Integers, Sequences, FiniteSets, TLC

(***************************************************************************)
(* Characters and strings (Python str operations used by the program).     *)
(***************************************************************************)
Char(t, i) == IF 1 <= i /\ i <= Len(t) THEN SubSeq(t, i, i) ELSE ""

Tail1(t) == SubSeq(t, 2, Len(t))

Digits == "0123456789"

IsDigit(c) == c \in { "0", "1", "2", "3", "4", "5", "6", "7", "8", "9" }

DigitVal(c) == (CHOOSE k \in 1..10 : Char(Digits, k) = c) - 1

DigitChar(n) == Char(Digits, n + 1)

UpperAlpha == "ABCDEFGHIJKLMNOPQRSTUVWXYZ"

LowerAlpha == "abcdefghijklmnopqrstuvwxyz"

IsUpper(c) ==
  c \in { "A", "B", "C", "D", "E", "F", "G", "H", "I", "J", "K", "L", "M",
          "N", "O", "P", "Q", "R", "S", "T", "U", "V", "W", "X", "Y", "Z" }

IsLower(c) ==
  c \in { "a", "b", "c", "d", "e", "f", "g", "h", "i", "j", "k", "l", "m",
          "n", "o", "p", "q", "r", "s", "t", "u", "v", "w", "x", "y", "z" }

IsAlpha(c) == IsUpper(c) \/ IsLower(c)

LowerChar(c) ==
  IF IsUpper(c) THEN Char(LowerAlpha, CHOOSE k \in 1..26 : Char(UpperAlpha, k) = c)
  ELSE c

RECURSIVE Lower(_)
Lower(t) == IF t = "" THEN "" ELSE LowerChar(Char(t, 1)) \o Lower(Tail1(t))

\* the characters that \s and str.split() treat as white space
Whitespace == {" ", "\t", "\n", "\r", "\f"}

IsSpace(c) == c \in Whitespace

\* Python's  sub in t
Contains(t, sub) ==
  \E i \in 1..(Len(t) - Len(sub) + 1) : SubSeq(t, i, i + Len(sub) - 1) = sub

StartsWithAt(t, i, lit) ==
  i + Len(lit) - 1 <= Len(t) /\ SubSeq(t, i, i + Len(lit) - 1) = lit

EndsWith(t, suffix) ==
  Len(suffix) <= Len(t) /\ SubSeq(t, Len(t) - Len(suffix) + 1, Len(t)) = suffix

Num2(t, i) == 10 * DigitVal(Char(t, i)) + DigitVal(Char(t, i + 1))

Num4(t, i) == 100 * Num2(t, i) + Num2(t, i + 2)

AllDigits(t, i, n) == \A k \in i..(i + n - 1) : IsDigit(Char(t, k))

\* str(n) for n >= 0
RECURSIVE IntToStr(_)
IntToStr(n) ==
  IF n < 10 THEN DigitChar(n) ELSE IntToStr(n \div 10) \o DigitChar(n % 10)

\* f"{n:02d}"
Pad2(n) == IF n < 10 THEN "0" \o DigitChar(n) ELSE IntToStr(n)

\* str.strip()
RECURSIVE Strip(_)
Strip(t) ==
  IF t = "" THEN ""
  ELSE IF IsSpace(Char(t, 1)) THEN Strip(Tail1(t))
  ELSE IF IsSpace(Char(t, Len(t))) THEN Strip(SubSeq(t, 1, Len(t) - 1))
  ELSE t

\* t.split(c)[0] for a one-character separator c
BeforeFirst(t, c) ==
  IF Contains(t, c)
  THEN SubSeq(t, 1, (CHOOSE i \in 1..Len(t) :
                       Char(t, i) = c /\ \A j \in 1..(i - 1) : Char(t, j) # c) - 1)
  ELSE t

(***************************************************************************)
(* The regular expressions of date_formats.  Each piece gives the index    *)
(* after the match that starts at i, or 0 when there is no match at i.     *)
(***************************************************************************)
\* (0[1-9]|[1-2][0-9]|3[01])
ReDay(t, i) ==
  LET a == Char(t, i)
      b == Char(t, i + 1)
  IN  \/ a = "0" /\ IsDigit(b) /\ b # "0"
      \/ a \in {"1", "2"} /\ IsDigit(b)
      \/ a = "3" /\ b \in {"0", "1"}

\* (0[1-9]|1[0-2])
ReMonth(t, i) ==
  LET a == Char(t, i)
      b == Char(t, i + 1)
  IN  \/ a = "0" /\ IsDigit(b) /\ b # "0"
      \/ a = "1" /\ b \in {"0", "1", "2"}

\* (20[0-9]{2})
ReYear4(t, i) == StartsWithAt(t, i, "20") /\ AllDigits(t, i + 2, 2)

\* ([0-9]{2})
ReYear2(t, i) == AllDigits(t, i, 2)

\* (?=[\s\-:]|$) at index i
ReLookahead(t, i) == i = Len(t) + 1 \/ IsSpace(Char(t, i)) \/ Char(t, i) \in {"-", ":"}

\* the separator of the day-month-year formats 1..4 and 6..9
ReSep(k, c) ==
  CASE k \in {1, 6} -> c = "/"
    [] k \in {2, 7} -> c = "."
    [] k \in {3, 8} -> IsSpace(c)
    [] k \in {4, 9} -> c = "-"

EnglishMonths ==
  << "January", "February", "March", "April", "May", "June", "July",
     "August", "September", "October", "November", "December" >>

\* \.? then \s then (20[0-9]{2}), after the three letters of format 10
ReAbbrevTail(t, i) ==
  LET j == IF Char(t, i) = "." THEN i + 1 ELSE i
  IN  IF IsSpace(Char(t, j)) /\ ReYear4(t, j + 1) THEN j + 5 ELSE 0

\* date_formats[k] matched at index i of t
date_formats(k, t, i) ==
  CASE k \in 1..4 ->
         IF /\ ReDay(t, i) /\ ReSep(k, Char(t, i + 2))
            /\ ReMonth(t, i + 3) /\ ReSep(k, Char(t, i + 5))
            /\ ReYear4(t, i + 6)
         THEN i + 10 ELSE 0
    [] k = 5 ->
         IF /\ ReYear4(t, i) /\ Char(t, i + 4) = "-"
            /\ ReMonth(t, i + 5) /\ Char(t, i + 7) = "-"
            /\ ReDay(t, i + 8)
         THEN i + 10 ELSE 0
    [] k \in 6..9 ->
         IF /\ ReDay(t, i) /\ ReSep(k, Char(t, i + 2))
            /\ ReMonth(t, i + 3) /\ ReSep(k, Char(t, i + 5))
            /\ ReYear2(t, i + 6) /\ ReLookahead(t, i + 8)
         THEN i + 8 ELSE 0
    [] k = 10 ->
         IF /\ ReDay(t, i) /\ IsSpace(Char(t, i + 2))
            /\ \A j \in (i + 3)..(i + 5) : IsAlpha(Char(t, j))
         THEN ReAbbrevTail(t, i + 6) ELSE 0
    [] k = 11 ->
         IF \E n \in 1..12 :
              LET j == i + Len(EnglishMonths[n])
              IN  /\ StartsWithAt(t, i, EnglishMonths[n])
                  /\ IsSpace(Char(t, j)) /\ ReMonth(t, j + 1)
                  /\ Char(t, j + 3) = "," /\ IsSpace(Char(t, j + 4))
                  /\ ReYear4(t, j + 5)
         THEN LET n == CHOOSE n \in 1..12 :
                         LET j == i + Len(EnglishMonths[n])
                         IN  /\ StartsWithAt(t, i, EnglishMonths[n])
                             /\ IsSpace(Char(t, j)) /\ ReMonth(t, j + 1)
                             /\ Char(t, j + 3) = "," /\ IsSpace(Char(t, j + 4))
                             /\ ReYear4(t, j + 5)
              IN  i + Len(EnglishMonths[n]) + 9
         ELSE 0

NumDateFormats == 11

\* the index of the leftmost match of date_formats[k] in t from index i on,
\* 0 when there is none
RECURSIVE FirstMatch(_, _, _)
FirstMatch(k, t, i) ==
  IF i > Len(t) THEN 0
  ELSE IF date_formats(k, t, i) # 0 THEN i
  ELSE FirstMatch(k, t, i + 1)

\* re.search(date_formats[k], t).group(0), "" when there is no match
re_search(k, t) ==
  LET i == FirstMatch(k, t, 1)
  IN  IF i = 0 THEN "" ELSE SubSeq(t, i, date_formats(k, t, i) - 1)

(***************************************************************************)
(* datetime.strptime for the directives the program's templates use.  The  *)
(* library compiles the template to a regular expression, takes its first  *)
(* match at the start of the string (alternatives in the library's order), *)
(* rejects a match that leaves characters unconverted, and then builds the *)
(* date, which rejects a day that the month does not have.                 *)
(***************************************************************************)
MonthAbbrevs ==
  << "jan", "feb", "mar", "apr", "may", "jun",
     "jul", "aug", "sep", "oct", "nov", "dec" >>

StrpFail == [ok |-> FALSE, end |-> 0, day |-> 0, month |-> 0, year |-> 0]

StrpStart == [ok |-> FALSE, end |-> 0, day |-> 1, month |-> 1, year |-> 1900]

\* %y: values 69..99 map to 1969..1999, values 0..68 to 2000..2068
StrpTwoDigitYear(yy) == IF yy < 69 THEN 2000 + yy ELSE 1900 + yy

\* the alternatives of one directive that match at index i, in regex order
StrpDirective(dir, t, i) ==
  LET a == Char(t, i)
      b == Char(t, i + 1)
      nonzero(c) == IsDigit(c) /\ c # "0"
      cands ==
        CASE dir = "d" ->
               << [hit |-> \/ a = "3" /\ b \in {"0", "1"}
                           \/ a \in {"1", "2"} /\ IsDigit(b)
                           \/ a = "0" /\ nonzero(b),
                   len |-> 2, field |-> "day", two |-> TRUE, at |-> i],
                  [hit |-> nonzero(a),
                   len |-> 1, field |-> "day", two |-> FALSE, at |-> i],
                  [hit |-> a = " " /\ nonzero(b),
                   len |-> 2, field |-> "day", two |-> FALSE, at |-> i + 1] >>
          [] dir = "m" ->
               << [hit |-> \/ a = "1" /\ b \in {"0", "1", "2"}
                           \/ a = "0" /\ nonzero(b),
                   len |-> 2, field |-> "month", two |-> TRUE, at |-> i],
                  [hit |-> nonzero(a),
                   len |-> 1, field |-> "month", two |-> FALSE, at |-> i] >>
          [] dir = "Y" ->
               << [hit |-> AllDigits(t, i, 4),
                   len |-> 4, field |-> "Y", two |-> FALSE, at |-> i] >>
          [] dir = "y" ->
               << [hit |-> AllDigits(t, i, 2),
                   len |-> 2, field |-> "y", two |-> FALSE, at |-> i] >>
          [] dir = "b" ->
               << [hit |-> \E n \in 1..12 :
                             Lower(SubSeq(t, i, i + 2)) = MonthAbbrevs[n],
                   len |-> 3, field |-> "b", two |-> FALSE, at |-> i] >>
          [] OTHER -> << >>
  IN  SelectSeq(cands, LAMBDA c : c.hit)

\* the fields after the alternative c of a directive has consumed its text
StrpStore(acc, c, t) ==
  CASE c.field = "day" ->
         [acc EXCEPT !.day = IF c.two THEN Num2(t, c.at) ELSE DigitVal(Char(t, c.at))]
    [] c.field = "month" ->
         [acc EXCEPT !.month = IF c.two THEN Num2(t, c.at) ELSE DigitVal(Char(t, c.at))]
    [] c.field = "Y" -> [acc EXCEPT !.year = Num4(t, c.at)]
    [] c.field = "y" -> [acc EXCEPT !.year = StrpTwoDigitYear(Num2(t, c.at))]
    [] c.field = "b" ->
         [acc EXCEPT !.month =
            CHOOSE n \in 1..12 : Lower(SubSeq(t, c.at, c.at + 2)) = MonthAbbrevs[n]]

\* the number of white-space characters of t from index i on
RECURSIVE SpaceRun(_, _)
SpaceRun(t, i) == IF IsSpace(Char(t, i)) THEN 1 + SpaceRun(t, i + 1) ELSE 0

RECURSIVE StrpMatch(_, _, _, _, _)
RECURSIVE StrpAlternatives(_, _, _, _, _, _, _)
RECURSIVE StrpSpaces(_, _, _, _, _, _)

\* the first alternative, from the n-th on, after which the rest of f matches
StrpAlternatives(alts, n, t, i, f, j, acc) ==
  IF n > Len(alts) THEN StrpFail
  ELSE LET c == alts[n]
           r == StrpMatch(t, i + c.len, f, j, StrpStore(acc, c, t))
       IN  IF r.ok THEN r ELSE StrpAlternatives(alts, n + 1, t, i, f, j, acc)

\* \s+ : n white-space characters, then fewer on failure
StrpSpaces(n, t, i, f, j, acc) ==
  IF n < 1 THEN StrpFail
  ELSE LET r == StrpMatch(t, i + n, f, j, acc)
       IN  IF r.ok THEN r ELSE StrpSpaces(n - 1, t, i, f, j, acc)

\* template f from index j on matched against t from index i on
StrpMatch(t, i, f, j, acc) ==
  IF j > Len(f) THEN [acc EXCEPT !.ok = TRUE, !.end = i]
  ELSE IF Char(f, j) = "%"
       THEN StrpAlternatives(StrpDirective(Char(f, j + 1), t, i), 1, t, i, f, j + 2, acc)
       ELSE IF IsSpace(Char(f, j))
            THEN StrpSpaces(SpaceRun(t, i), t, i, f, j + 1, acc)
            ELSE IF i <= Len(t) /\ LowerChar(Char(t, i)) = LowerChar(Char(f, j))
                 THEN StrpMatch(t, i + 1, f, j + 1, acc)
                 ELSE StrpFail

IsLeap(y) == (y % 4 = 0 /\ y % 100 # 0) \/ y % 400 = 0

DaysInMonth(y, m) ==
  IF m = 2 THEN (IF IsLeap(y) THEN 29 ELSE 28)
  ELSE IF m \in {4, 6, 9, 11} THEN 30 ELSE 31

\* the date built from the match r of the template on t: the match has to
\* reach the end of t, and the day has to be one of the month
StrpBuild(r, t) ==
  IF /\ r.ok /\ r.end = Len(t) + 1
     /\ r.year >= 1 /\ r.day <= DaysInMonth(r.year, r.month)
  THEN r ELSE StrpFail

\* datetime.strptime(t, f); ok = FALSE stands for ValueError
strptime(t, f) == StrpBuild(StrpMatch(t, 1, f, 1, StrpStart), t)

(***************************************************************************)
(* extract_month_from_french and extract_date_from_text.                   *)
(***************************************************************************)
NoDate == << 0, 0 >>

months_french ==
  << "janvier", "février", "mars", "avril", "mai", "juin", "juillet",
     "août", "septembre", "octobre", "novembre", "décembre" >>

\* text.split(): the words of t, in order
RECURSIVE Split(_)
Split(t) ==
  IF t = "" THEN << >>
  ELSE IF IsSpace(Char(t, 1)) THEN Split(Tail1(t))
  ELSE LET n == CHOOSE n \in 1..Len(t) :
                  /\ \A k \in 1..n : ~IsSpace(Char(t, k))
                  /\ (n = Len(t) \/ IsSpace(Char(t, n + 1)))
       IN  << SubSeq(t, 1, n) >> \o Split(SubSeq(t, n + 1, Len(t)))

\* next((int(word) for word in words if word.isdigit() and len(word) == 4), None)
FirstYearWord(words) ==
  LET hits == SelectSeq(words, LAMBDA w : Len(w) = 4 /\ AllDigits(w, 1, 4))
  IN  IF hits = << >> THEN 0 ELSE Num4(hits[1], 1)

\* the string "01/MM/<year>" of the first month name, in dictionary order,
\* that occurs in the text, when the text has a non-zero 4-digit word; "" for None
extract_month_from_french(text) ==
  LET year == FirstYearWord(Split(text))
      lowered == Lower(text)
      found == { n \in 1..12 : Contains(lowered, months_french[n]) }
  IN  IF found # {} /\ year # 0
      THEN LET number == CHOOSE n \in found : \A k \in found : n <= k
           IN  "01/" \o Pad2(number) \o "/" \o IntToStr(year)
      ELSE ""

StrptimeTemplates ==
  << "%d/%m/%Y", "%d.%m.%Y", "%d-%m-%Y", "%d/%m/%y", "%d.%m.%y", "%d-%m-%y",
     "%d %m %Y", "%d %m %y", "%d %b %Y", "%Y-%m-%d" >>

min_year == 1900

max_year(current_year) == current_year + 1

\* the year the program keeps from a parse with template fmt
TemplateYear(date_obj, fmt) ==
  IF EndsWith(fmt, "%y") THEN 2000 + (date_obj.year % 100) ELSE date_obj.year

\* the range test without its upper end
YearInRange_NoUpperEnd(year, current_year) == min_year <= year

\* the range test on the year of an accepted parse
YearInRange(year, current_year) == min_year <= year /\ year <= max_year(current_year)

\* lines 215-219: the match, cleaned of a time of day that follows a dash
MatchedText(group0) ==
  LET m == Strip(group0)
  IN  IF Contains(m, "-") /\ Contains(m, ":") THEN Strip(BeforeFirst(m, "-")) ELSE m

\* a loop that returns the date of its first successful turn: date is what
\* this turn gives, rest what the following turns give
OrElse(date, rest) == IF date # NoDate THEN date ELSE rest

\* lines 225-237: what the parse date_obj with template fmt makes the loop return
TemplateDate(date_obj, fmt, current_year) ==
  IF date_obj.ok /\ YearInRange(TemplateYear(date_obj, fmt), current_year)
  THEN << date_obj.month, TemplateYear(date_obj, fmt) >>
  ELSE NoDate

\* the templates, from the n-th on, tried on the matched text
RECURSIVE TryTemplates(_, _, _)
TryTemplates(matched_text, n, current_year) ==
  IF n > Len(StrptimeTemplates) THEN NoDate
  ELSE OrElse(TemplateDate(strptime(matched_text, StrptimeTemplates[n]),
                           StrptimeTemplates[n], current_year),
              TryTemplates(matched_text, n + 1, current_year))

\* lines 242-245: the date of the parsed fallback string
FrenchParsed(date_obj) ==
  IF date_obj.ok THEN << date_obj.month, date_obj.year >> ELSE NoDate

\* lines 240-245
FrenchDate(french_date) ==
  IF french_date = "" THEN NoDate ELSE FrenchParsed(strptime(french_date, "%d/%m/%Y"))

\* the French-month fallback of extract_date_from_text
FrenchFallback(text) == FrenchDate(extract_month_from_french(text))

\* lines 214-237: what the match found of one date format gives, "" for no match
MatchDate(found, current_year) ==
  IF found = "" THEN NoDate ELSE TryTemplates(MatchedText(found), 1, current_year)

\* the date formats, from the k-th on, searched in the text
RECURSIVE TryFormats(_, _, _)
TryFormats(text, k, current_year) ==
  IF k > NumDateFormats THEN FrenchFallback(text)
  ELSE OrElse(MatchDate(re_search(k, text), current_year),
              TryFormats(text, k + 1, current_year))

\* (month, year), or NoDate for (None, None)
extract_date_from_text(text, current_year) == TryFormats(text, 1, current_year)

(***************************************************************************)
(* Keyword classification.                                                 *)
(***************************************************************************)
\* any(keyword.lower() in text for keyword in specific_keywords)
AnyKeywordIn(text, specific_keywords) ==
  \E n \in 1..Len(specific_keywords) : Contains(text, Lower(specific_keywords[n]))

undesired_defaults == << "ceci n'est pas une facture" >>

desired_defaults == << "facture", "invoice", "rechnung", "facturation", "repas" >>

contains_undesired_keywords(text) == AnyKeywordIn(text, undesired_defaults)

contains_desired_keywords(text) == AnyKeywordIn(text, desired_defaults)

\* the keyword list that main builds from its built-in list and the arguments
main_keywords(args) ==
  << "facture", "invoice", "fechnung", "ticket", "justificatif" >>
    \o [n \in 1..Len(args) |-> Lower(args[n])]

\* the test with the caller's keywords left out
HasInvoiceKeyword_BuiltInOnly(text, keywords) == contains_desired_keywords(text)

\* the test of lines 302 and 322
HasInvoiceKeyword(text, keywords) ==
  AnyKeywordIn(text, keywords) \/ contains_desired_keywords(text)

(***************************************************************************)
(* Paths are sequences of names below the working directory, << >>.        *)
(***************************************************************************)
basename(path) == path[Len(path)]

dirname(path) == SubSeq(path, 1, Len(path) - 1)

\* os.path.splitext on a name: the last dot that is not a leading dot
splitext(name) ==
  LET dots == { i \in 2..Len(name) :
                  Char(name, i) = "." /\ \E j \in 1..(i - 1) : Char(name, j) # "." }
  IN  IF dots = {} THEN << name, "" >>
      ELSE LET i == CHOOSE i \in dots : \A j \in dots : j <= i
           IN  << SubSeq(name, 1, i - 1), SubSeq(name, i, Len(name)) >>

\* every directory on the way to a path, the path's own directory included
Ancestors(path) == { SubSeq(path, 1, n) : n \in 1..(Len(path) - 1) }

\* os.path.exists
path_exists(files, folders, path) == path \in DOMAIN files \/ path \in folders

\* a sample of the 62^3 values of generate_random_suffix
RandomSuffixes == { "aB3", "Zz9" }

construct_target_file_path(files, folders, target_folder_path, filepath, suffix) ==
  LET target_file_path == Append(target_folder_path, basename(filepath))
      parts == splitext(basename(filepath))
  IN  IF path_exists(files, folders, target_file_path)
      THEN Append(target_folder_path, parts[1] \o "_" \o suffix \o parts[2])
      ELSE target_file_path

max_depth == 2

\* year_pattern.fullmatch(d)
year_pattern(d) == Len(d) = 4 /\ ReYear4(d, 1)

\* the filter without the exclusion of commande
WalkKeeps_YearsOnly(d) == ~year_pattern(d)

\* the directories that os.walk still descends into after the filter of line 383
WalkKeeps(d) == Lower(d) # "commande" /\ ~year_pattern(d)

\* os.walk reaches a directory when every ancestor below the start was kept
\* by the filter of its parent, which is applied down to max_depth
WalkReaches(dir) ==
  \A n \in 1..Len(dir) : (n - 1) <= max_depth /\ WalkKeeps(dir[n])

\* the paths find_pdf_files returns for the tree (files, folders)
find_pdf_files(files) ==
  { path \in DOMAIN files :
      /\ Len(dirname(path)) <= max_depth
      /\ WalkReaches(dirname(path))
      /\ EndsWith(Lower(basename(path)), ".pdf") }

\* the folders left when delete_empty_folders has removed, bottom-up, every
\* folder that holds nothing
RECURSIVE delete_empty_folders(_, _)
delete_empty_folders(files, folders) ==
  LET empty == { d \in folders :
                   /\ \A path \in DOMAIN files : d \notin Ancestors(path)
                   /\ \A e \in folders : d \notin Ancestors(e) }
  IN  IF empty = {} THEN folders ELSE delete_empty_folders(files, folders \ empty)

(***************************************************************************)
(* Documents.  A document is a sequence of pages; a page has the text that *)
(* page.get_text() returns and, for each embedded image, the list of       *)
(* paragraphs that reader.readtext returns for it.                         *)
(***************************************************************************)
Page(text, images) == [text |-> text, images |-> images]

Docs ==
  << \* an undesired phrase next to an invoice keyword and a date
     << Page("Ceci n'est pas\nune FACTURE 13/07/2023", << >>) >>,
     \* a keyword and a French date before 1900
     << Page("Repas 15 mars 1850", << >>) >>,
     \* a keyword and a two-digit year beyond the accepted range
     << Page("facture 01.12.99 merci", << >>) >>,
     \* a date and no keyword
     << Page("devis 2023-07-13", << >>) >>,
     \* a scanned page of three images, then a page of text
     << Page("", << << "scan" >>, << "Bill", "13 07 24 " >>, << "verso" >> >>),
        Page("fin", << >>) >> >>

\* ' '.join(ocr_result)
RECURSIVE JoinSpace(_)
JoinSpace(parts) ==
  IF parts = << >> THEN ""
  ELSE IF Len(parts) = 1 THEN parts[1]
  ELSE parts[1] \o " " \o JoinSpace(Tail(parts))

\* s.replace('\n', ' ')
RECURSIVE ReplaceNewlines(_)
ReplaceNewlines(t) ==
  IF t = "" THEN ""
  ELSE (IF Char(t, 1) = "\n" THEN " " ELSE Char(t, 1)) \o ReplaceNewlines(Tail1(t))

(***************************************************************************)
(* Lines 277-303: the text of a document.  calls counts the calls that can *)
(* raise (fitz.open, page.get_text, the OCR of one image); the call number *)
(* fault raises, 0 for none.  ocr_done counts the OCR calls that returned. *)
(***************************************************************************)
ExtractStart ==
  [text |-> "", ocr_used |-> FALSE, calls |-> 1, raised |-> FALSE, ocr_done |-> 0]

RECURSIVE ExtractImages(_, _, _, _, _, _)
ExtractImages(image_list, i, st, fault, keywords, current_year) ==
  IF i > Len(image_list) THEN st
  ELSE IF st.calls + 1 = fault
       THEN [st EXCEPT !.calls = @ + 1, !.raised = TRUE]
       ELSE LET text == st.text \o Lower(ReplaceNewlines(JoinSpace(image_list[i])))
                next == [st EXCEPT !.calls = @ + 1, !.text = text,
                                   !.ocr_used = TRUE, !.ocr_done = @ + 1]
                month == extract_date_from_text(text, current_year)[1]
            IN  IF month # 0 /\ HasInvoiceKeyword(text, keywords)
                THEN next
                ELSE ExtractImages(image_list, i + 1, next, fault, keywords, current_year)

RECURSIVE ExtractPages(_, _, _, _, _, _)
ExtractPages(pdf, n, st, fault, keywords, current_year) ==
  IF n > Len(pdf) \/ st.raised THEN st
  ELSE IF st.calls + 1 = fault
       THEN [st EXCEPT !.calls = @ + 1, !.raised = TRUE]
       ELSE LET page == pdf[n]
                got == [st EXCEPT !.calls = @ + 1]
                next == IF page.text # ""
                        THEN [got EXCEPT !.text = @ \o Lower(ReplaceNewlines(page.text))]
                        ELSE ExtractImages(page.images, 1, got, fault,
                                           keywords, current_year)
            IN  ExtractPages(pdf, n + 1, next, fault, keywords, current_year)

ExtractText(pdf, fault, keywords, current_year) ==
  IF fault = 1 THEN [ExtractStart EXCEPT !.raised = TRUE]
  ELSE ExtractPages(pdf, 1, ExtractStart, fault, keywords, current_year)

\* the largest number of calls that can raise while a document is read
MaxCalls(pdf) == ExtractText(pdf, 0, << >>, 0).calls

(***************************************************************************)
(* Lines 309-347: the decision taken on the accumulated text.              *)
(***************************************************************************)
\* the record of a decision
Decision(decision, date, target_folder_path) ==
  [decision |-> decision, month |-> date[1], year_extracted |-> date[2],
   target_folder_path |-> target_folder_path]

\* line 330
SortedFolder(date) == << IntToStr(date[2]), "Facture fournisseur", Pad2(date[1]) >>

\* the branches with the invoice keywords tested before the undesired ones
Branch_KeywordFirst(text, keywords, date) ==
  IF HasInvoiceKeyword(text, keywords)
  THEN IF date[1] = 0
       THEN Decision("Unsortable", date, << >>)
       ELSE Decision("Sorted", date, SortedFolder(date))
  ELSE IF contains_undesired_keywords(text)
       THEN Decision("NonInvoice", date, << "commande" >>)
       ELSE Decision("Unsortable", date, << >>)

\* the branches of lines 311-347, for the date that line 309 extracted
Branch(text, keywords, date) ==
  IF contains_undesired_keywords(text)
  THEN Decision("NonInvoice", date, << "commande" >>)
  ELSE IF HasInvoiceKeyword(text, keywords)
       THEN IF date[1] = 0
            THEN Decision("Unsortable", date, << >>)
            ELSE Decision("Sorted", date, SortedFolder(date))
       ELSE Decision("Unsortable", date, << >>)

Classify(text, keywords, current_year) ==
  Branch(text, keywords, extract_date_from_text(text, current_year))

(***************************************************************************)
(* The run.                                                                *)
(***************************************************************************)
NumFiles == 2

Files == 1..NumFiles

\* os.cpu_count()
cpu_count == 1

max_workers == IF cpu_count * 2 # 0 THEN cpu_count * 2 ELSE 1

FolderNames == << "a", "b", "c", "d", "e", "f" >>

\* where the PDF file f lies before the run: files of the same name in
\* folders of their own
SourcePath(f) == << FolderNames[f], "x.pdf" >>

ArchivePath == << "in.zip" >>

\* the file value of the ZIP archive; a PDF file has the value f in Files
Archive == NumFiles + 1

StatKeys ==
  { "total_files", "sorted_files", "unsorted_files", "ocr_processed",
    "commande_files", "errors", "zip_extracted" }

VARIABLES
  DRY_RUN,         \* the --dry-run flag
  args,            \* the keyword arguments of the command line
  current_year,    \* datetime.now().year
  files,           \* the file system: path |-> file value
  folders,         \* the file system: the directories below the working directory
  archive,         \* the members of the ZIP archive: records [path, file]
  doc,             \* the document that each PDF file holds
  STATS,           \* the global counters
  unsorted_files,  \* the list shared by the pipelines
  stats_lock,      \* 0 when free, else the task that holds it
  main_pc,         \* where main() is
  task,            \* the process_pdf_file invocation of each file
  hist,            \* history of each invocation
  tree0,           \* the file system when the run started
  memo,            \* the values of ExtractText and Classify for Docs, computed once
  text_in,         \* the argument of a call of extract_date_from_text on its own
  parts,           \* how that argument was put together
  date_out,        \* what the call returned
  date_pc          \* "off", "call" or "return"

dateVars == << text_in, parts, date_out, date_pc >>

vars ==
  << DRY_RUN, args, current_year, files, folders, archive, doc, STATS,
     unsorted_files, stats_lock, main_pc, task, hist, tree0, memo, dateVars >>

keywords == main_keywords(args)

NoTask ==
  [pc |-> "none", filepath |-> << >>, text |-> "", ocr_used |-> FALSE,
   month |-> 0, year_extracted |-> 0, decision |-> "",
   target_folder_path |-> << >>, target_file_path |-> << >>,
   todo |-> << >>, tmp |-> 0, then |-> ""]

NoHist ==
  [raised |-> "none", ocr_done |-> 0, moved_to |-> << >>,
   added |-> [k \in StatKeys |-> 0]]

Terminal == { "returned", "escaped" }

Running == { f \in Files : task[f].pc \notin ({ "none", "queued" } \cup Terminal) }

ArgChoices == { << "Bill" >> }

YearChoices == { 2026 }

\* what reading each document of Docs gives for each call that may raise,
\* and the decision on each text that a complete reading gives
MemoOf(kws, year) ==
  LET extract == [d \in 1..Len(Docs) |->
                    [fault \in 0..MaxCalls(Docs[d]) |->
                       ExtractText(Docs[d], fault, kws, year)]]
      texts == { extract[d][0].text : d \in 1..Len(Docs) }
  IN  [extract |-> extract,
       classify |-> [text \in texts |-> Classify(text, kws, year)]]

Init ==
  /\ DRY_RUN \in BOOLEAN
  /\ args \in ArgChoices
  /\ current_year \in YearChoices
  /\ memo = MemoOf(main_keywords(args), current_year)
  /\ doc \in [Files -> 1..Len(Docs)]
  /\ \E zipped \in SUBSET { NumFiles } :
       /\ archive = { [path |-> SourcePath(f), file |-> f] : f \in zipped }
       /\ files = [path \in { SourcePath(f) : f \in Files \ zipped }
                               \cup (IF zipped = {} THEN {} ELSE { ArchivePath })
                     |-> IF path = ArchivePath THEN Archive
                         ELSE CHOOSE f \in Files : SourcePath(f) = path]
       /\ folders = UNION { Ancestors(SourcePath(f)) : f \in Files \ zipped }
       /\ tree0 = << files, folders >>
  /\ STATS = [k \in StatKeys |-> 0]
  /\ unsorted_files = << >>
  /\ stats_lock = 0
  /\ main_pc = "unzip"
  /\ task = [f \in Files |-> NoTask]
  /\ hist = [f \in Files |-> NoHist]
  /\ text_in = ""
  /\ parts = [kind |-> "none"]
  /\ date_out = NoDate
  /\ date_pc = "off"

(***************************************************************************)
(* main, up to the dispatch.                                               *)
(***************************************************************************)
\* zipfile.extractall: every member written below the directory
extractall(fs, members) ==
  [path \in DOMAIN fs \cup { m.path : m \in members } |->
     IF \E m \in members : m.path = path
     THEN (CHOOSE m \in members : m.path = path).file
     ELSE fs[path]]

\* unzip_files_in_directory(os.getcwd()); an archive that cannot be read
\* is reported and skipped.  DRY_RUN is not consulted.
unzip_files_in_directory ==
  /\ main_pc = "unzip"
  /\ LET zip_files == { path \in DOMAIN files :
                          Len(path) = 1 /\ EndsWith(path[1], ".zip") }
     IN  \E good \in SUBSET zip_files :
           /\ files' = IF good = {} THEN files ELSE extractall(files, archive)
           /\ folders' = IF good = {} THEN folders
                         ELSE folders \cup UNION { Ancestors(m.path) : m \in archive }
           /\ STATS' = [STATS EXCEPT !["zip_extracted"] = @ + Cardinality(good)]
  /\ main_pc' = "find"
  /\ UNCHANGED << DRY_RUN, args, current_year, archive, doc, unsorted_files,
                  stats_lock, task, hist, tree0, memo, dateVars >>

\* lines 512-535: discovery, the count, and one submitted task per file
Dispatch ==
  /\ main_pc = "find"
  /\ LET pdf_files == find_pdf_files(files)
     IN  /\ STATS' = [STATS EXCEPT !["total_files"] = Cardinality(pdf_files)]
         /\ main_pc' = IF pdf_files = {} THEN "exit" ELSE "as_completed"
         /\ task' = [f \in Files |->
                       IF \E path \in pdf_files : files[path] = f
                       THEN [NoTask EXCEPT
                               !.pc = "queued",
                               !.filepath = CHOOSE path \in pdf_files : files[path] = f]
                       ELSE task[f]]
  /\ UNCHANGED << DRY_RUN, args, current_year, files, folders, archive, doc,
                  unsorted_files, stats_lock, hist, tree0, memo, dateVars >>

(***************************************************************************)
(* process_pdf_file.  The steps that touch only the invocation's own       *)
(* variables are joined to the step on shared state that precedes them.    *)
(***************************************************************************)
\* the counters that lines 318-320, 326-327, 341-342 and 346-347 increment
CountersOf(decision) ==
  CASE decision = "NonInvoice" -> << "commande_files", "sorted_files" >>
    [] decision = "Sorted" -> << "sorted_files" >>
    [] decision = "Unsortable" -> << "unsorted_files" >>

\* lines 309-347 up to the first step on shared state
AfterClassify(t) ==
  LET c == memo.classify[t.text]
      u == [t EXCEPT !.decision = c.decision, !.month = c.month,
                     !.year_extracted = c.year_extracted,
                     !.target_folder_path = c.target_folder_path,
                     !.todo = CountersOf(c.decision), !.then = "return"]
  IN  IF c.decision = "Unsortable" THEN [u EXCEPT !.pc = "append"]
      ELSE IF DRY_RUN THEN [u EXCEPT !.pc = "lock"]
      ELSE [u EXCEPT !.pc = "target"]

\* lines 349-356, up to the append
AfterException(t) ==
  [t EXCEPT !.pc = "append", !.todo = << "errors", "unsorted_files" >>,
            !.then = "return"]

\* lines 270-307: the OCR reader, the text of the document, and the
\* decision when no counter has to be updated first
Begin(f) ==
  /\ task[f].pc = "queued"
  /\ Cardinality(Running) < max_workers
  /\ \/ \* easyocr.Reader raises, outside the try statement
        /\ task' = [task EXCEPT ![f].pc = "escaped"]
        /\ hist' = [hist EXCEPT ![f].raised = "reader"]
     \/ \E fault \in DOMAIN memo.extract[doc[f]] :
          LET st == memo.extract[doc[f]][
                                IF task[f].filepath \in DOMAIN files THEN fault ELSE 1]
              t == [task[f] EXCEPT !.text = st.text, !.ocr_used = st.ocr_used]
          IN  /\ hist' = [hist EXCEPT
                            ![f].ocr_done = st.ocr_done,
                            ![f].raised = IF st.raised THEN "extract" ELSE "none"]
              /\ task' = [task EXCEPT ![f] =
                            IF st.raised THEN AfterException(t)
                            ELSE IF st.ocr_used
                                 THEN [t EXCEPT !.pc = "lock",
                                                !.todo = << "ocr_processed" >>,
                                                !.then = "classify"]
                                 ELSE AfterClassify(t)]
  /\ UNCHANGED << DRY_RUN, args, current_year, files, folders, archive, doc, STATS,
                  unsorted_files, stats_lock, main_pc, tree0, memo, dateVars >>

\* whether  with stats_lock:  may be entered
lock_is_free(lock) == lock = 0

\* with stats_lock: and the read of the first counter
Acquire(f) ==
  /\ task[f].pc = "lock"
  /\ lock_is_free(stats_lock)
  /\ stats_lock' = f
  /\ task' = [task EXCEPT ![f].pc = "store", ![f].tmp = STATS[Head(task[f].todo)]]
  /\ UNCHANGED << DRY_RUN, args, current_year, files, folders, archive, doc, STATS,
                  unsorted_files, main_pc, hist, tree0, memo, dateVars >>

\* the write of STATS[key] += 1, then the read of the next counter or the
\* end of the with statement
Store(f) ==
  /\ task[f].pc = "store"
  /\ LET key == Head(task[f].todo)
         rest == Tail(task[f].todo)
         t == [task[f] EXCEPT !.todo = rest]
     IN  /\ STATS' = [STATS EXCEPT ![key] = task[f].tmp + 1]
         /\ hist' = [hist EXCEPT ![f].added[key] = @ + 1]
         /\ stats_lock' = IF rest = << >> THEN 0 ELSE stats_lock
         /\ task' = [task EXCEPT ![f] =
                       IF rest # << >> THEN [t EXCEPT !.tmp = STATS'[Head(rest)]]
                       ELSE IF t.then = "classify" THEN AfterClassify(t)
                       ELSE [t EXCEPT !.pc = "returned"]]
  /\ UNCHANGED << DRY_RUN, args, current_year, files, folders, archive, doc,
                  unsorted_files, main_pc, tree0, memo, dateVars >>

\* os.makedirs(target_folder_path, exist_ok=True), then construct_target_file_path
Target(f) ==
  /\ task[f].pc = "target"
  /\ LET t == task[f]
         made == folders \cup Ancestors(Append(t.target_folder_path, ""))
     IN  /\ folders' = made
         /\ \E suffix \in RandomSuffixes :
              task' = [task EXCEPT
                         ![f].pc = "move",
                         ![f].target_file_path =
                            construct_target_file_path(files, made, t.target_folder_path,
                                                       t.filepath, suffix)]
  /\ UNCHANGED << DRY_RUN, args, current_year, files, archive, doc, STATS,
                  unsorted_files, stats_lock, main_pc, hist, tree0, memo, dateVars >>

\* shutil.move on a file: the destination is replaced when it exists
shutil_move(fs, src, dst) ==
  [path \in (DOMAIN fs \ { src }) \cup { dst } |-> IF path = dst THEN fs[src] ELSE fs[path]]

\* shutil.move(filepath, target_file_path), which may raise
Move(f) ==
  /\ task[f].pc = "move"
  /\ \/ /\ task[f].filepath \in DOMAIN files
        /\ files' = shutil_move(files, task[f].filepath, task[f].target_file_path)
        /\ task' = [task EXCEPT ![f].pc = "lock"]
        /\ hist' = [hist EXCEPT ![f].moved_to = task[f].target_file_path]
     \/ /\ task' = [task EXCEPT ![f] = AfterException(task[f])]
        /\ hist' = [hist EXCEPT ![f].raised = "move"]
        /\ UNCHANGED files
  /\ UNCHANGED << DRY_RUN, args, current_year, folders, archive, doc, STATS,
                  unsorted_files, stats_lock, main_pc, tree0, memo, dateVars >>

\* unsorted_files.append(filepath)
AppendUnsorted(f) ==
  /\ task[f].pc = "append"
  /\ unsorted_files' = Append(unsorted_files, task[f].filepath)
  /\ task' = [task EXCEPT ![f].pc = "lock"]
  /\ UNCHANGED << DRY_RUN, args, current_year, files, folders, archive, doc, STATS,
                  stats_lock, main_pc, hist, tree0, memo, dateVars >>

(***************************************************************************)
(* main, after the dispatch.                                               *)
(***************************************************************************)
Submitted == { f \in Files : task[f].pc # "none" }

\* the loop left without waiting for the futures
as_completed_NoWait ==
  /\ main_pc = "as_completed"
  /\ main_pc' = IF DRY_RUN THEN "report" ELSE "cleanup"
  /\ UNCHANGED << DRY_RUN, args, current_year, files, folders, archive, doc, STATS,
                  unsorted_files, stats_lock, task, hist, tree0, memo, dateVars >>

\* lines 537-541: the loop over as_completed(futures) ends when every future
\* is done, with a result or with an exception; then the executor shuts down
as_completed ==
  /\ main_pc = "as_completed"
  /\ \A f \in Submitted : task[f].pc \in Terminal
  /\ main_pc' = IF DRY_RUN THEN "report" ELSE "cleanup"
  /\ UNCHANGED << DRY_RUN, args, current_year, files, folders, archive, doc, STATS,
                  unsorted_files, stats_lock, task, hist, tree0, memo, dateVars >>

\* delete_empty_folders(os.getcwd())
Cleanup ==
  /\ main_pc = "cleanup"
  /\ folders' = delete_empty_folders(files, folders)
  /\ main_pc' = "report"
  /\ UNCHANGED << DRY_RUN, args, current_year, files, archive, doc, STATS,
                  unsorted_files, stats_lock, task, hist, tree0, memo, dateVars >>

\* lines 547-565: the list of unsorted files and the counters are printed
Report ==
  /\ main_pc = "report"
  /\ main_pc' = "done"
  /\ UNCHANGED << DRY_RUN, args, current_year, files, folders, archive, doc, STATS,
                  unsorted_files, stats_lock, task, hist, tree0, memo, dateVars >>

Next ==
  \/ unzip_files_in_directory
  \/ Dispatch
  \/ \E f \in Files : Begin(f)
  \/ \E f \in Files : Acquire(f)
  \/ \E f \in Files : Store(f)
  \/ \E f \in Files : Target(f)
  \/ \E f \in Files : Move(f)
  \/ \E f \in Files : AppendUnsorted(f)
  \/ as_completed
  \/ Cleanup
  \/ Report

Spec == Init /\ [][Next]_vars

(***************************************************************************)
(* extract_date_from_text called on its own, on texts put together from a  *)
(* prefix, a date in one of the program's notations, and a suffix.         *)
(***************************************************************************)
Separators == { "/", ".", " ", "-" }

DayMonths == { << 1, 12 >>, << 29, 2 >> }

Prefixes == { "facture " }

\* what may follow a two-digit year: the end, white space, a dash, a colon
Followers == { "", " merci", "-14:14:28" }

FourDigitYears == { 1999, 2000, 2024, 2027, 2028, 2029, 2050, 2099 }

FrenchYearWords == { "0999", "1850", "1899", "1900", "2022", "2027", "2028", "2029", "3024" }

FrenchMonthWords == { "mars", "Mai", "décembre" }

NowYears == { 2026, 2027 }

TwoDigitText(pre, d, sep, m, yy, post) ==
  pre \o Pad2(d) \o sep \o Pad2(m) \o sep \o Pad2(yy) \o post

FourDigitText(pre, d, sep, m, y) ==
  pre \o Pad2(d) \o sep \o Pad2(m) \o sep \o IntToStr(y) \o " total"

DateInputs ==
  { [kind |-> "yy", pre |-> pre, d |-> dm[1], m |-> dm[2], yy |-> yy, sep |-> sep,
     post |-> post, text |-> TwoDigitText(pre, dm[1], sep, dm[2], yy, post)] :
      pre \in Prefixes, dm \in DayMonths, yy \in 0..99, sep \in Separators,
      post \in Followers }
  \cup
  { [kind |-> "yyyy", d |-> dm[1], m |-> dm[2], y |-> y, sep |-> sep,
     text |-> FourDigitText("date: ", dm[1], sep, dm[2], y)] :
      dm \in DayMonths, y \in FourDigitYears, sep \in Separators }
  \cup
  { [kind |-> "french", word |-> w, year |-> y, text |-> "15 " \o w \o " " \o y \o " avis"] :
      w \in FrenchMonthWords, y \in FrenchYearWords }
  \cup
  { [kind |-> "other", text |-> t] :
      t \in { "13 Jul 2023", "2023-07-13", "13 07 2050 mars", "13 jul. 2023",
              "January 05, 2023", "31/02/2023 x 01-03-24", "no date at all" } }

InitDate ==
  /\ DRY_RUN = FALSE
  /\ args = << >>
  /\ current_year \in NowYears
  /\ memo = [extract |-> << >>, classify |-> << >>]
  /\ doc = [f \in Files |-> 1]
  /\ archive = {}
  /\ files = << >>
  /\ folders = {}
  /\ tree0 = << files, folders >>
  /\ STATS = [k \in StatKeys |-> 0]
  /\ unsorted_files = << >>
  /\ stats_lock = 0
  /\ main_pc = "off"
  /\ task = [f \in Files |-> NoTask]
  /\ hist = [f \in Files |-> NoHist]
  /\ \E in \in DateInputs :
       /\ text_in = in.text
       /\ parts = in
  /\ date_out = NoDate
  /\ date_pc = "call"

CallExtractDate ==
  /\ date_pc = "call"
  /\ date_out' = extract_date_from_text(text_in, current_year)
  /\ date_pc' = "return"
  /\ UNCHANGED << DRY_RUN, args, current_year, files, folders, archive, doc, STATS,
                  unsorted_files, stats_lock, main_pc, task, hist, tree0, memo,
                  text_in, parts >>

NextDate == CallExtractDate

SpecDate == InitDate /\ [][NextDate]_vars

(***************************************************************************)
(* Properties.                                                             *)
(***************************************************************************)
Added(f, key) == hist[f].added[key]

\* how often the file of invocation f is in the list of unsorted files
TimesUnsorted(f) ==
  Cardinality({ i \in 1..Len(unsorted_files) : unsorted_files[i] = task[f].filepath })

Joined == main_pc \in { "cleanup", "report", "done" }

UndesiredPhrase == "ceci n'est pas une facture"

\* the invoice keywords: the two built-in lists and the caller's arguments
InvoiceKeywords ==
  { "facture", "invoice", "fechnung", "ticket", "justificatif",
    "rechnung", "facturation", "repas" } \cup { Lower(args[n]) : n \in 1..Len(args) }

\* invocation f ran to its end without an exception, and the run is over
Classified(f) ==
  main_pc = "done" /\ task[f].pc = "returned" /\ hist[f].raised = "none"

\* C1: once every invocation has finished, each file has added one to exactly
\* one of sorted_files and unsorted_files, and the two counters sum to
\* total_files, whatever the invocation's outcome was.
C1_EveryFileCountedOnce ==
  Joined =>
    /\ STATS["sorted_files"] + STATS["unsorted_files"] = STATS["total_files"]
    /\ \A f \in Submitted : Added(f, "sorted_files") + Added(f, "unsorted_files") = 1

\* C2: in preview mode no step of the run changes the directory tree.
C2_PreviewLeavesTree == DRY_RUN => << files, folders >> = tree0

\* C3: two files of the same name that a run without preview moves to the same
\* folder both exist after the run, one under the original name and the
\* other under another name of that folder.
C3_CollisionKeepsBoth ==
  \A f, g \in Files :
    ( /\ main_pc = "done" /\ ~DRY_RUN /\ f # g
      /\ hist[f].moved_to # << >> /\ hist[g].moved_to # << >>
      /\ basename(task[f].filepath) = basename(task[g].filepath)
      /\ task[f].target_folder_path = task[g].target_folder_path )
    => LET original == Append(task[f].target_folder_path, basename(task[f].filepath))
           of_f == { path \in DOMAIN files : files[path] = f }
           of_g == { path \in DOMAIN files : files[path] = g }
       IN  /\ of_f # {} /\ of_g # {}
           /\ original \in of_f \cup of_g
           /\ \A path \in of_f \cup of_g : dirname(path) = task[f].target_folder_path

\* C4: a text with an undesired keyword is a non-invoice, whatever else it
\* holds: destination commande, commande_files and sorted_files one more each,
\* unsorted_files and the list of unsorted files untouched.
C4_UndesiredIsNonInvoice ==
  \A f \in Files :
    (Classified(f) /\ Contains(task[f].text, UndesiredPhrase)) =>
      /\ task[f].decision = "NonInvoice"
      /\ task[f].target_folder_path = << "commande" >>
      /\ ~DRY_RUN => dirname(hist[f].moved_to) = << "commande" >>
      /\ DRY_RUN => hist[f].moved_to = << >>
      /\ Added(f, "commande_files") = 1 /\ Added(f, "sorted_files") = 1
      /\ Added(f, "unsorted_files") = 0 /\ Added(f, "errors") = 0
      /\ TimesUnsorted(f) = 0

\* C4 witness: a text with the undesired phrase, an invoice keyword and a date
\* has been taken for a non-invoice.
C4_Witness ==
  \E f \in Files :
    /\ Classified(f) /\ Contains(task[f].text, UndesiredPhrase)
    /\ Contains(task[f].text, "facture") /\ task[f].month # 0
    /\ task[f].decision = "NonInvoice" /\ Added(f, "commande_files") = 1

C6_ExceptionEndsFailed ==
  \A f \in Files :
    (task[f].pc \in Terminal /\ hist[f].raised # "none") =>
      /\ TimesUnsorted(f) = 1
      /\ Added(f, "errors") = 1 /\ Added(f, "unsorted_files") = 1
      /\ Added(f, "sorted_files") = 0

\* C7: a file that the run has put into a sort destination is not among the
\* files that find_pdf_files returns for the tree.
C7_SortedNotRediscovered ==
  \A f \in Files :
    (hist[f].moved_to # << >> /\ hist[f].moved_to \in DOMAIN files) =>
      hist[f].moved_to \notin find_pdf_files(files)

\* C7 witness: a file lies in the folder of a year that does not start with 20.
C7_Witness ==
  /\ main_pc = "done"
  /\ << "1850", "Facture fournisseur", "03", "x.pdf" >> \in DOMAIN files
  /\ \E f \in Files : hist[f].moved_to = << "1850", "Facture fournisseur", "03", "x.pdf" >>

\* C8: a date that extract_date_from_text returns has a month in 1..12 and a
\* year in [1900, current_year + 1].
C8_YearWithinRange ==
  (date_pc = "return" /\ date_out # NoDate) =>
    /\ date_out[1] \in 1..12
    /\ 1900 <= date_out[2] /\ date_out[2] <= current_year + 1

\* C9 as stated: a text whose only date is dd<sep>mm<sep>yy yields
\* (mm, 2000 + yy) for every yy in 00..99.
C9_EveryTwoDigitYear ==
  (date_pc = "return" /\ parts.kind = "yy") => date_out = << parts.m, 2000 + parts.yy >>

\* the days of month m in the year 2000 + yy
DaysOf(m, yy) ==
  IF m = 2 THEN (IF yy % 4 = 0 THEN 29 ELSE 28)
  ELSE IF m \in { 4, 6, 9, 11 } THEN 30 ELSE 31

\* C9, amended: a text whose only date is dd<sep>mm<sep>yy yields
\* (mm, 2000 + yy) when 2000 + yy is at most current_year + 1 and dd is a day
\* of that month, and no date otherwise.
C9_TwoDigitYearWithinRange ==
  (date_pc = "return" /\ parts.kind = "yy") =>
    date_out = IF 2000 + parts.yy <= current_year + 1 /\ parts.d <= DaysOf(parts.m, parts.yy)
               THEN << parts.m, 2000 + parts.yy >>
               ELSE NoDate

\* C9 witness: "facture 01.12.99 merci" has been given and no date came back.
C9_Witness ==
  /\ date_pc = "return" /\ parts.kind = "yy" /\ parts.yy = 99
  /\ text_in = "facture 01.12.99 merci"
  /\ date_out = NoDate

\* C10: when an invocation has ended, ocr_processed is one more for it if an
\* OCR call was made on one of its images, and untouched if none was.
C10_OcrCountedOncePerFile ==
  \A f \in Files :
    task[f].pc \in Terminal =>
      Added(f, "ocr_processed") = IF hist[f].ocr_done > 0 THEN 1 ELSE 0

\* invocation f takes a step, and the step changes a counter of STATS
WritesCounter(f) == task'[f] # task[f] /\ STATS' # STATS

\* invocation f takes a step, and the step changes the list of unsorted files
WritesList(f) == task'[f] # task[f] /\ unsorted_files' # unsorted_files

\* every increment of a counter by a pipeline is made by the holder of
\* stats_lock
CountersUnderLock ==
  [][ \A f \in Files :
        (main_pc = "as_completed" /\ WritesCounter(f)) => stats_lock = f ]_vars

\* C11: while the pipelines run, every step of an invocation that changes a
\* counter of STATS or the list of unsorted files is taken by the holder of
\* stats_lock.
C11_MutationsUnderLock ==
  [][ \A f \in Files :
        (main_pc = "as_completed" /\ (WritesCounter(f) \/ WritesList(f)))
          => stats_lock = f ]_vars

\* main has left the with statement of the executor
PostPassBegun == main_pc \in { "cleanup", "report", "done" }

\* C12: the post-pass and the report begin only when every submitted
\* invocation has returned or raised; from then on the list of unsorted
\* files, the counters and the files stay as they are and no invocation
\* takes a step, the folders change only by the post-pass, and the
\* post-pass runs only without preview.
C12_PostPassAfterPipelines ==
  /\ [](PostPassBegun => \A f \in Submitted : task[f].pc \in Terminal)
  /\ [](main_pc = "cleanup" => ~DRY_RUN)
  /\ [][ PostPassBegun =>
           /\ unsorted_files' = unsorted_files /\ STATS' = STATS
           /\ files' = files /\ task' = task
           /\ folders' # folders => (main_pc = "cleanup" /\ ~DRY_RUN) ]_vars

\* C12 witness: a run without preview is over in which one file was moved,
\* another went to the list of unsorted files, and the post-pass removed the
\* folder that the moved file left empty.
C12_Witness ==
  /\ main_pc = "done" /\ ~DRY_RUN /\ unsorted_files # << >>
  /\ \E f \in Files :
       /\ hist[f].moved_to # << >>
       /\ dirname(task[f].filepath) \in tree0[2]
       /\ dirname(task[f].filepath) \notin folders

=============================================================================
